---- MODULE Spec2Model ----
(***************************************************************************)
(* go-adc: the register layer codec (pkg/layers, RegLayer) and the HTTP    *)
(* API handlers of the control server (pkg/srv/control, ApiServer).        *)
(*                                                                         *)
(* Three specifications share the variables below:                         *)
(*   SpecCodec  - a layer is serialized into a buffer and the buffer is    *)
(*                decoded into a fresh layer;                              *)
(*   SpecDecode - one RegLayer value receives a sequence of                *)
(*                DecodeFromBytes calls;                                   *)
(*   SpecApi    - the API server handles requests against a registry of    *)
(*                devices.                                                 *)
(***************************************************************************)
EXTENDS Integers, Sequences, FiniteSets, TLC

VARIABLES
    reg,      \* the RegLayer the methods are called on: [RegOps |-> <<RegOp>>]
    buf,      \* the caller's byte buffer (len = cap), bytes 0..255
    buf0,     \* buf as it was before the last Serialize / SerializeTo call
    data,     \* the bytes handed to the last DecodeFromBytes / DecodeRegLayer
    ops0,     \* reg.RegOps as it was before the last DecodeFromBytes call
    pkt,      \* layers the PacketBuilder received through p.AddLayer
    err,      \* error returned by the last codec call ("nil" when none)
    pc,       \* position of the codec's caller
    devices,  \* ApiServer.ctrl: the names the device registry holds
    req,      \* the request the API server handled last
    env,      \* what the collaborators answered during that request
    calls,    \* the calls made on s.ctrl and on device handles, in order
    resp      \* the HTTP response written: status, error, body

codecVars == <<reg, buf, buf0, data, ops0, pkt, err, pc>>
apiVars == <<devices, req, env, calls, resp>>
vars == <<reg, buf, buf0, data, ops0, pkt, err, pc, devices, req, env, calls, resp>>

(***************************************************************************)
(* Bounds of the model.                                                    *)
(***************************************************************************)
MaxOps == 2       \* longest RegOps sequence that is serialized
MaxExtra == 1     \* bytes a caller's buffer may have beyond 4 * len(RegOps)
MaxWords == 2     \* most whole words in a buffer handed to DecodeFromBytes in SpecDecode
MaxRegOps == 2    \* cap on len(reg.RegOps) accumulated in SpecDecode
MaxRegs == 2      \* longest register list a device's RegReadAll returns

(***************************************************************************)
(* uint32 arithmetic.  A uint32 is the function of its 32 bits, bit 0 the  *)
(* least significant (TLC's integers are too narrow for 0x80000000).       *)
(***************************************************************************)
BitIdx == 0..31

\* the uint32 whose upper 16 bits are hi and lower 16 bits are lo
W(hi, lo) ==
    [i \in BitIdx |-> IF i < 16 THEN (lo \div (2^i)) % 2
                               ELSE (hi \div (2^(i - 16))) % 2]

\* uint32(x) for a uint16 x
U32(x) == W(0, x)

And(a, b) == [i \in BitIdx |-> a[i] * b[i]]

Or(a, b) == [i \in BitIdx |-> IF a[i] + b[i] > 0 THEN 1 ELSE 0]

Shl(a, n) == [i \in BitIdx |-> IF i >= n THEN a[i - n] ELSE 0]

Shr(a, n) == [i \in BitIdx |-> IF i + n <= 31 THEN a[i + n] ELSE 0]

\* byte k (0 = least significant) of a uint32
ByteOf(w, k) ==
    w[8*k] + 2*w[8*k + 1] + 4*w[8*k + 2] + 8*w[8*k + 3]
    + 16*w[8*k + 4] + 32*w[8*k + 5] + 64*w[8*k + 6] + 128*w[8*k + 7]

\* uint16(w): the conversion keeps the low 16 bits
Uint16(w) == ByteOf(w, 0) + 256 * ByteOf(w, 1)

\* int8(w): the conversion keeps the low 8 bits, two's complement
Int8(w) == IF ByteOf(w, 0) >= 128 THEN ByteOf(w, 0) - 256 ELSE ByteOf(w, 0)

\* binary.LittleEndian.PutUint32: the four bytes, least significant first
PutUint32(w) == <<ByteOf(w, 0), ByteOf(w, 1), ByteOf(w, 2), ByteOf(w, 3)>>

\* binary.LittleEndian.Uint32 of a 4-byte slice
Uint32(b) == [i \in BitIdx |-> (b[(i \div 8) + 1] \div (2^(i % 8))) % 2]

(***************************************************************************)
(* RegOp and RegLayer.Serialize / SerializeTo.                             *)
(***************************************************************************)
RegOp(read, regNum, regValue) ==
    [Read |-> read, RegNum |-> regNum, RegValue |-> regValue]

\* the word Serialize writes with RegNum masked by 0xffff instead of 0x7fff
EncodeWordWideMask(op) ==
    IF op.Read
    THEN Or(W(32768, 0), Shl(And(U32(op.RegNum), W(0, 65535)), 16))
    ELSE Or(Or(W(0, 0), Shl(And(U32(op.RegNum), W(0, 65535)), 16)),
            U32(op.RegValue))

\* the word Serialize writes for one RegOp
EncodeWord(op) ==
    IF op.Read
    THEN Or(W(32768, 0), Shl(And(U32(op.RegNum), W(0, 32767)), 16))
    ELSE Or(Or(W(0, 0), Shl(And(U32(op.RegNum), W(0, 32767)), 16)),
            U32(op.RegValue))

\* offset of the i-th operation (i counted from 0) with a stride of 3
OffsetStride3(i) == i * 3

\* offset := i * 4
Offset(i) == i * 4

\* copy of b with the bytes of w stored at b[offset:offset+4]
PutAt(b, offset, w) ==
    [j \in 1..Len(b) |->
        IF j > offset /\ j <= offset + 4 THEN w[j - offset] ELSE b[j]]

RECURSIVE SerializeFrom(_, _, _)
\* the loop of Serialize from operation i (counted from 0) on; slicing
\* buf[offset:offset+4] beyond the buffer panics, the words before it written
SerializeFrom(ops, b, i) ==
    IF i >= Len(ops) THEN [buf |-> b, panicked |-> FALSE]
    ELSE IF Offset(i) + 4 > Len(b) THEN [buf |-> b, panicked |-> TRUE]
    ELSE SerializeFrom(ops, PutAt(b, Offset(i), PutUint32(EncodeWord(ops[i + 1]))), i + 1)

Serialize(ops, b) == SerializeFrom(ops, b, 0)

\* b.AppendBytes(n): the buffer grown by n bytes at its end; the new bytes
\* are the slice handed back
AppendBytes(b, n) == b \o [j \in 1..n |-> 0]

\* SerializeTo: the appended slice is serialized into; AppendBytes made it
\* 4 * len(RegOps) long, so Serialize cannot run past it
SerializeTo(ops, b) ==
    LET grown == AppendBytes(b, Len(ops) * 4)
        bytes == SubSeq(grown, Len(b) + 1, Len(grown))
    IN  [buf |-> b \o Serialize(ops, bytes).buf, err |-> "nil"]

(***************************************************************************)
(* RegLayer.DecodeFromBytes and DecodeRegLayer.                            *)
(***************************************************************************)
\* the RegOp decoded from a word with RegNum taken through mask 0xffff0000
DecodeWordWideMask(word) ==
    RegOp(Int8(Shr(And(word, W(32768, 0)), 31)) = 1,
          Uint16(Shr(And(word, W(65535, 0)), 16)),
          Uint16(And(word, W(0, 65535))))

\* the RegOp decoded from one word
DecodeWord(word) ==
    RegOp(Int8(Shr(And(word, W(32768, 0)), 31)) = 1,
          Uint16(Shr(And(word, W(32767, 0)), 16)),
          Uint16(And(word, W(0, 65535))))

RECURSIVE DecodeFrom(_, _, _)
\* the loop of DecodeFromBytes from word i on: i < len(data) / 4
DecodeFrom(regOps, d, i) ==
    IF i >= Len(d) \div 4 THEN regOps
    ELSE DecodeFrom(
            Append(regOps, DecodeWord(Uint32(SubSeq(d, Offset(i) + 1, Offset(i) + 4)))),
            d, i + 1)

\* DecodeFromBytes on a layer whose RegOps is regOps: the decoded
\* operations are appended to reg.RegOps and nil is returned
DecodeFromBytes(regOps, d) ==
    [RegOps |-> DecodeFrom(regOps, d, 0), Contents |-> d, err |-> "nil"]

\* DecodeRegLayer: a fresh RegLayer decodes the data and is added to the packet
DecodeRegLayer(d) ==
    LET r == DecodeFromBytes(<<>>, d)
    IN  IF r.err # "nil" THEN [layers |-> <<>>, err |-> r.err]
        ELSE [layers |-> <<[RegOps |-> r.RegOps]>>, err |-> "nil"]

(***************************************************************************)
(* Inputs of the codec.                                                    *)
(***************************************************************************)
RegNums == {1, 4660, 65535}      \* 0x0001, 0x1234, 0xFFFF
RegValues == {0, 255}            \* 0x0000, 0x00FF

RegOpSet == {RegOp(r, n, v) : r \in BOOLEAN, n \in RegNums, v \in RegValues}

SeqsUpTo(S, n) == UNION {[1..k -> S] : k \in 0..n}

\* a caller's buffer of n bytes, every byte different from its neighbours
FreshBuf(n) == [j \in 1..n |-> 224 + j]

BufLens(ops) ==
    {n \in (Len(ops) * 4 - 1)..(Len(ops) * 4 + MaxExtra) : n >= 0}

idleApi ==
    /\ devices = {}
    /\ req = [handler |-> "none"]
    /\ env = [none |-> TRUE]
    /\ calls = <<>>
    /\ resp = [status |-> 0]

(***************************************************************************)
(* SpecCodec: serialize a layer, then decode the bytes into a fresh layer. *)
(***************************************************************************)
InitCodec ==
    /\ reg \in {[RegOps |-> ops] : ops \in SeqsUpTo(RegOpSet, MaxOps)}
    /\ buf \in {FreshBuf(n) : n \in BufLens(reg.RegOps)}
    /\ buf0 = buf
    /\ data = <<>>
    /\ ops0 = <<>>
    /\ pkt = <<>>
    /\ err = "nil"
    /\ pc = "new"
    /\ idleApi

\* reg.Serialize(buf)
CallSerialize ==
    /\ pc = "new"
    /\ LET r == Serialize(reg.RegOps, buf)
       IN  /\ buf' = r.buf
           /\ pc' = IF r.panicked THEN "panic" ELSE "serialized"
    /\ buf0' = buf
    /\ UNCHANGED <<reg, data, ops0, pkt, err>>
    /\ UNCHANGED apiVars

\* reg.SerializeTo(b, opts), b holding buf
CallSerializeTo ==
    /\ pc = "new"
    /\ LET r == SerializeTo(reg.RegOps, buf)
       IN  /\ buf' = r.buf
           /\ err' = r.err
    /\ buf0' = buf
    /\ pc' = "appended"
    /\ UNCHANGED <<reg, data, ops0, pkt>>
    /\ UNCHANGED apiVars

\* the receiver decodes the bytes: the whole buffer Serialize wrote into, or
\* the bytes SerializeTo appended
WireBytes ==
    IF pc = "appended" THEN SubSeq(buf, Len(buf0) + 1, Len(buf)) ELSE buf

CallDecodeRegLayer ==
    /\ pc \in {"serialized", "appended"}
    /\ LET r == DecodeRegLayer(WireBytes)
       IN  /\ pkt' = r.layers
           /\ err' = r.err
    /\ data' = WireBytes
    /\ pc' = "decoded"
    /\ UNCHANGED <<reg, buf, buf0, ops0>>
    /\ UNCHANGED apiVars

NextCodec == CallSerialize \/ CallSerializeTo \/ CallDecodeRegLayer

SpecCodec == InitCodec /\ [][NextCodec]_vars

(***************************************************************************)
(* SpecDecode: one RegLayer value is decoded into again and again.         *)
(***************************************************************************)
\* the words 0x92340000 and 0x000100FF as they travel, least significant
\* byte first
FrameWords == {<<0, 0, 52, 146>>, <<255, 0, 1, 0>>}

\* bytes that follow the last whole word of a malformed frame
TailBytes == <<1, 146, 1>>

RECURSIVE Flatten(_)
Flatten(ws) == IF ws = <<>> THEN <<>> ELSE Head(ws) \o Flatten(Tail(ws))

\* byte buffers of 0..MaxWords whole words followed by 0..3 more bytes
DecodeInputs ==
    {Flatten(ws) \o SubSeq(TailBytes, 1, k) :
        ws \in SeqsUpTo(FrameWords, MaxWords), k \in 0..3}

InitDecode ==
    /\ reg = [RegOps |-> <<>>]
    /\ buf = <<>>
    /\ buf0 = <<>>
    /\ data = <<>>
    /\ ops0 = <<>>
    /\ pkt = <<>>
    /\ err = "nil"
    /\ pc = "idle"
    /\ idleApi

\* req := &RegLayer{}
NewRegLayer ==
    /\ reg' = [RegOps |-> <<>>]
    /\ pc' = "idle"
    /\ UNCHANGED <<buf, buf0, data, ops0, pkt, err>>
    /\ UNCHANGED apiVars

\* reg.DecodeFromBytes(d, df) on the layer as it stands
CallDecodeFromBytes ==
    \E d \in DecodeInputs :
        /\ Len(reg.RegOps) + Len(d) \div 4 <= MaxRegOps
        /\ LET r == DecodeFromBytes(reg.RegOps, d)
           IN  /\ reg' = [RegOps |-> r.RegOps]
               /\ err' = r.err
        /\ ops0' = reg.RegOps
        /\ data' = d
        /\ pc' = "decodedInto"
        /\ UNCHANGED <<buf, buf0, pkt>>
        /\ UNCHANGED apiVars

\* DecodeRegLayer(d, p) for a packet of its own
RecvDecodeRegLayer ==
    \E d \in DecodeInputs :
        /\ LET r == DecodeRegLayer(d)
           IN  /\ pkt' = r.layers
               /\ err' = r.err
        /\ data' = d
        /\ pc' = "decodedPkt"
        /\ UNCHANGED <<reg, buf, buf0, ops0>>
        /\ UNCHANGED apiVars

NextDecode == NewRegLayer \/ CallDecodeFromBytes \/ RecvDecodeRegLayer

SpecDecode == InitDecode /\ [][NextDecode]_vars

(***************************************************************************)
(* The API server.  Errors are values; Nil is Go's nil error.              *)
(***************************************************************************)
Nil == [kind |-> "nil", what |-> ""]

ErrUnknownDevice(name) == [kind |-> "ErrUnknownDevice", what |-> name]

ErrUnknownOperation == [kind |-> "ErrUnknownOperation", what |-> "mstream action"]

ErrDevice(name) == [kind |-> "ErrDeviceCommunication", what |-> name]

ErrSyntax == [kind |-> "ErrSyntax", what |-> ""]

StatusOK == 200
StatusBadRequest == 400
StatusNotFound == 404
StatusBadGateway == 502

\* one call made on s.ctrl or on a device handle
Call(method, target) == [method |-> method, target |-> target]

DeviceMethods == {"RegRead", "RegReadAll", "RegWrite", "MStreamStart", "MStreamStop"}

HexDigits == <<"0", "1", "2", "3", "4", "5", "6", "7",
               "8", "9", "a", "b", "c", "d", "e", "f">>

\* fmt "0x%04x" of a uint16: the text Reg.Hex gives for an address or a value
Hex4(n) ==
    <<"0", "x", HexDigits[((n \div 4096) % 16) + 1], HexDigits[((n \div 256) % 16) + 1],
      HexDigits[((n \div 16) % 16) + 1], HexDigits[(n % 16) + 1]>>

\* reg.Hex(): the address and the value of a register as hexadecimal text
Hex(r) == [Addr |-> Hex4(r.Addr), Value |-> Hex4(r.Value)]

DigitValue(c) == CHOOSE k \in 0..15 : HexDigits[k + 1] = c

RECURSIVE HexValue(_, _)
HexValue(t, acc) ==
    IF t = <<>> THEN acc ELSE HexValue(Tail(t), acc * 16 + DigitValue(Head(t)))

\* strconv.ParseUint(text, 0, 16) on the texts the model sends: "0x"
\* followed by one to four hexadecimal digits parses, everything else is a
\* syntax error
ParseUint(t) ==
    IF /\ Len(t) >= 3
       /\ Len(t) <= 6
       /\ t[1] = "0"
       /\ t[2] = "x"
       /\ \A j \in 3..Len(t) : \E k \in 1..16 : HexDigits[k] = t[j]
    THEN [value |-> HexValue(SubSeq(t, 3, Len(t)), 0), err |-> Nil]
    ELSE [value |-> 0, err |-> ErrSyntax]

\* layers.NewRegFromHex(addr, value)
NewRegFromHex(addr, value) ==
    LET a == ParseUint(addr)
        v == ParseUint(value)
    IN  IF a.err # Nil THEN [reg |-> [Addr |-> 0, Value |-> 0], err |-> a.err]
        ELSE IF v.err # Nil THEN [reg |-> [Addr |-> 0, Value |-> 0], err |-> v.err]
        ELSE [reg |-> [Addr |-> a.value, Value |-> v.value], err |-> Nil]

\* s.ctrl.GetDeviceByName(name)
GetDeviceByName(name) ==
    IF name \in devices THEN [d |-> name, err |-> Nil]
    ELSE [d |-> "", err |-> ErrUnknownDevice(name)]

\* s.ctrl.GetAllDevices(): every registered device, in the order e.order
GetAllDevices(e) == e.order

\* d.RegRead(addr)
RegRead(d, addr, e) ==
    IF d \in e.failing THEN [reg |-> [Addr |-> 0, Value |-> 0], err |-> ErrDevice(d)]
    ELSE [reg |-> [Addr |-> addr, Value |-> e.value], err |-> Nil]

\* d.RegReadAll()
RegReadAll(d, e) ==
    IF d \in e.failing THEN [regs |-> <<>>, err |-> ErrDevice(d)]
    ELSE [regs |-> e.regs, err |-> Nil]

\* d.RegWrite(reg), d.MStreamStart(), d.MStreamStop()
DeviceCommand(d, e) == IF d \in e.failing THEN ErrDevice(d) ELSE Nil

\* what a handler leaves behind: the calls it made and the response
Outcome(cs, status, e, body) ==
    [calls |-> cs, resp |-> [status |-> status, err |-> e, body |-> body]]

\* regReadHex calling RegRead without looking at the lookup's error
regReadHexNoCheck(addr, device, e) ==
    LET r == RegRead(device, addr, e)
        cs == <<Call("GetDeviceByName", device), Call("RegRead", device)>>
    IN  IF r.err # Nil THEN [calls |-> cs, regHex |-> <<>>, err |-> r.err]
        ELSE [calls |-> cs, regHex |-> <<Hex(r.reg)>>, err |-> Nil]

regReadHex(addr, device, e) ==
    LET g == GetDeviceByName(device)
        r == RegRead(g.d, addr, e)
    IN  IF g.err # Nil
        THEN [calls |-> <<Call("GetDeviceByName", device)>>, regHex |-> <<>>, err |-> g.err]
        ELSE IF r.err # Nil
        THEN [calls |-> <<Call("GetDeviceByName", device), Call("RegRead", g.d)>>,
              regHex |-> <<>>, err |-> r.err]
        ELSE [calls |-> <<Call("GetDeviceByName", device), Call("RegRead", g.d)>>,
              regHex |-> <<Hex(r.reg)>>, err |-> Nil]

RECURSIVE HexAllPrepend(_, _, _)
\* the loop of regReadAllHex putting each register in front of the others
HexAllPrepend(regs, i, regsHex) ==
    IF i > Len(regs) THEN regsHex
    ELSE HexAllPrepend(regs, i + 1, <<Hex(regs[i])>> \o regsHex)

RECURSIVE HexAll(_, _, _)
\* the loop of regReadAllHex: regsHex = append(regsHex, &RegHex{...})
HexAll(regs, i, regsHex) ==
    IF i > Len(regs) THEN regsHex
    ELSE HexAll(regs, i + 1, Append(regsHex, Hex(regs[i])))

regReadAllHex(device, e) ==
    LET g == GetDeviceByName(device)
        r == RegReadAll(g.d, e)
    IN  IF g.err # Nil
        THEN [calls |-> <<Call("GetDeviceByName", device)>>, regsHex |-> <<>>, err |-> g.err]
        ELSE IF r.err # Nil
        THEN [calls |-> <<Call("GetDeviceByName", device), Call("RegReadAll", g.d)>>,
              regsHex |-> <<>>, err |-> r.err]
        ELSE [calls |-> <<Call("GetDeviceByName", device), Call("RegReadAll", g.d)>>,
              regsHex |-> HexAll(r.regs, 1, <<>>), err |-> Nil]

\* GET /api/reg/r/{device}/{addr}
RegReadHandler(device, addr, e) ==
    LET a == ParseUint(addr)
        r == regReadHex(a.value, device, e)
    IN  IF a.err # Nil THEN Outcome(<<>>, StatusBadRequest, a.err, <<>>)
        ELSE IF r.err # Nil THEN Outcome(r.calls, StatusNotFound, r.err, <<>>)
        ELSE Outcome(r.calls, StatusOK, Nil, r.regHex)

\* GET /api/reg/r/{device}
RegReadAllHandler(device, e) ==
    LET r == regReadAllHex(device, e)
    IN  IF r.err # Nil THEN Outcome(r.calls, StatusNotFound, r.err, <<>>)
        ELSE Outcome(r.calls, StatusOK, Nil, r.regsHex)

\* POST /api/reg/w/{device}; body.json tells whether the JSON decodes
RegWriteHandler(device, body, e) ==
    LET n == NewRegFromHex(body.Addr, body.Value)
        g == GetDeviceByName(device)
        w == DeviceCommand(g.d, e)
    IN  IF ~body.json THEN Outcome(<<>>, StatusBadRequest, ErrSyntax, <<>>)
        ELSE IF n.err # Nil THEN Outcome(<<>>, StatusBadRequest, n.err, <<>>)
        ELSE IF g.err # Nil
        THEN Outcome(<<Call("GetDeviceByName", device)>>, StatusNotFound, g.err, <<>>)
        ELSE IF w # Nil
        THEN Outcome(<<Call("GetDeviceByName", device), Call("RegWrite", g.d)>>,
                     StatusBadGateway, w, <<>>)
        ELSE Outcome(<<Call("GetDeviceByName", device), Call("RegWrite", g.d)>>,
                     StatusOK, Nil, <<>>)

\* GET /api/mstream/{action}/{device}: the device is looked up, then the
\* action is switched on
MStreamActionHandler(device, action, e) ==
    LET g == GetDeviceByName(device)
        c == DeviceCommand(g.d, e)
        lookup == <<Call("GetDeviceByName", device)>>
    IN  IF g.err # Nil THEN Outcome(lookup, StatusNotFound, g.err, <<>>)
        ELSE IF action = "start"
        THEN IF c # Nil
             THEN Outcome(Append(lookup, Call("MStreamStart", g.d)), StatusBadGateway, c, <<>>)
             ELSE Outcome(Append(lookup, Call("MStreamStart", g.d)), StatusOK, Nil, <<>>)
        ELSE IF action = "stop"
        THEN IF c # Nil
             THEN Outcome(Append(lookup, Call("MStreamStop", g.d)), StatusBadGateway, c, <<>>)
             ELSE Outcome(Append(lookup, Call("MStreamStop", g.d)), StatusOK, Nil, <<>>)
        ELSE Outcome(lookup, StatusBadRequest, ErrUnknownOperation, <<>>)

RECURSIVE ForEachDeviceKeepGoing(_, _, _, _, _)
\* the broadcast loop going on to the next device after a failure and
\* reporting the last failure
ForEachDeviceKeepGoing(ds, method, e, i, out) ==
    IF i > Len(ds) THEN out
    ELSE LET c == DeviceCommand(ds[i], e)
             cs == Append(out.calls, Call(method, ds[i]))
         IN  IF c # Nil
             THEN ForEachDeviceKeepGoing(ds, method, e, i + 1,
                     Outcome(cs, StatusBadGateway, c, <<>>))
             ELSE ForEachDeviceKeepGoing(ds, method, e, i + 1,
                     Outcome(cs, out.resp.status, out.resp.err, <<>>))

RECURSIVE ForEachDevice(_, _, _, _, _)
\* for _, d := range s.ctrl.GetAllDevices() { err := d.<method>(); if err
\* != nil { http.Error(..., StatusBadGateway); return } }
ForEachDevice(ds, method, e, i, out) ==
    IF i > Len(ds) THEN out
    ELSE LET c == DeviceCommand(ds[i], e)
             cs == Append(out.calls, Call(method, ds[i]))
         IN  IF c # Nil THEN Outcome(cs, StatusBadGateway, c, <<>>)
             ELSE ForEachDevice(ds, method, e, i + 1,
                     Outcome(cs, out.resp.status, out.resp.err, <<>>))

\* GET /api/mstream/{action}: the action is switched on first
MStreamActionAllHandler(action, e) ==
    LET start == Outcome(<<Call("GetAllDevices", "")>>, StatusOK, Nil, <<>>)
    IN  IF action = "start" THEN ForEachDevice(GetAllDevices(e), "MStreamStart", e, 1, start)
        ELSE IF action = "stop" THEN ForEachDevice(GetAllDevices(e), "MStreamStop", e, 1, start)
        ELSE Outcome(<<>>, StatusBadRequest, ErrUnknownOperation, <<>>)

(***************************************************************************)
(* Inputs of the API server.                                               *)
(***************************************************************************)
DeviceNames == {"adc0", "adc1", "adc2"}

\* the route accepts start and stop; a handler called with anything else
\* takes its default branch
MStreamActions == {"start", "stop", "pause"}

Addrs == {0, 1}

AddrTexts == {Hex4(a) : a \in Addrs} \cup {<<"0", "x", "z">>}

RegSet == {[Addr |-> 0, Value |-> 5], [Addr |-> 1, Value |-> 9]}

Values == {5, 9}

Bodies ==
    {[json |-> j, Addr |-> a, Value |-> Hex4(v)] :
        j \in BOOLEAN, a \in AddrTexts, v \in {9}}

\* the orders GetAllDevices may hand the registered devices back in
Orders(S) ==
    {o \in [1..Cardinality(S) -> S] : \A i, j \in 1..Cardinality(S) : o[i] = o[j] => i = j}

Request(handler, device, action, addr, body) ==
    [handler |-> handler, device |-> device, action |-> action, addr |-> addr, body |-> body]

NoBody == [json |-> FALSE, Addr |-> <<>>, Value |-> <<>>]

Env(failing, order, regs, value) ==
    [failing |-> failing, order |-> order, regs |-> regs, value |-> value]

idleCodec ==
    /\ reg = [RegOps |-> <<>>]
    /\ buf = <<>>
    /\ buf0 = <<>>
    /\ data = <<>>
    /\ ops0 = <<>>
    /\ pkt = <<>>
    /\ err = "nil"
    /\ pc = "idle"

(***************************************************************************)
(* SpecApi: the server handles one request after the other.                *)
(***************************************************************************)
InitApi ==
    /\ devices \in SUBSET DeviceNames
    /\ req = Request("none", "", "", <<>>, NoBody)
    /\ env = Env({}, <<>>, <<>>, 0)
    /\ calls = <<>>
    /\ resp = [status |-> 0, err |-> Nil, body |-> <<>>]
    /\ idleCodec

handleRegRead ==
    \E device \in DeviceNames, addr \in AddrTexts, fail \in BOOLEAN, value \in Values :
        LET e == Env(IF fail THEN {device} ELSE {}, <<>>, <<>>, value)
            out == RegReadHandler(device, addr, e)
        IN  /\ req' = Request("handleRegRead", device, "", addr, NoBody)
            /\ env' = e
            /\ calls' = out.calls
            /\ resp' = out.resp
            /\ UNCHANGED devices
            /\ UNCHANGED codecVars

handleRegReadAll ==
    \E device \in DeviceNames, fail \in BOOLEAN, regs \in SeqsUpTo(RegSet, MaxRegs) :
        LET e == Env(IF fail THEN {device} ELSE {}, <<>>, regs, 0)
            out == RegReadAllHandler(device, e)
        IN  /\ req' = Request("handleRegReadAll", device, "", <<>>, NoBody)
            /\ env' = e
            /\ calls' = out.calls
            /\ resp' = out.resp
            /\ UNCHANGED devices
            /\ UNCHANGED codecVars

handleRegWrite ==
    \E device \in DeviceNames, body \in Bodies, fail \in BOOLEAN :
        LET e == Env(IF fail THEN {device} ELSE {}, <<>>, <<>>, 0)
            out == RegWriteHandler(device, body, e)
        IN  /\ req' = Request("handleRegWrite", device, "", <<>>, body)
            /\ env' = e
            /\ calls' = out.calls
            /\ resp' = out.resp
            /\ UNCHANGED devices
            /\ UNCHANGED codecVars

handleMStreamAction ==
    \E device \in DeviceNames, action \in MStreamActions, fail \in BOOLEAN :
        LET e == Env(IF fail THEN {device} ELSE {}, <<>>, <<>>, 0)
            out == MStreamActionHandler(device, action, e)
        IN  /\ req' = Request("handleMStreamAction", device, action, <<>>, NoBody)
            /\ env' = e
            /\ calls' = out.calls
            /\ resp' = out.resp
            /\ UNCHANGED devices
            /\ UNCHANGED codecVars

handleMStreamActionAll ==
    \E action \in MStreamActions, failing \in SUBSET devices, order \in Orders(devices) :
        LET e == Env(failing, order, <<>>, 0)
            out == MStreamActionAllHandler(action, e)
        IN  /\ req' = Request("handleMStreamActionAll", "", action, <<>>, NoBody)
            /\ env' = e
            /\ calls' = out.calls
            /\ resp' = out.resp
            /\ UNCHANGED devices
            /\ UNCHANGED codecVars

NextApi ==
    \/ handleRegRead
    \/ handleRegReadAll
    \/ handleRegWrite
    \/ handleMStreamAction
    \/ handleMStreamActionAll

SpecApi == InitApi /\ [][NextApi]_vars

(***************************************************************************)
(* Properties of the codec.                                                *)
(***************************************************************************)
\* the serialized frame is exactly what the receiver decoded, and every
\* operation sent has its fields in range
RoundTripCase ==
    /\ pc = "decoded"
    /\ Len(data) = 4 * Len(reg.RegOps)
    /\ \A i \in 1..Len(reg.RegOps) :
          reg.RegOps[i].RegNum < 32768 /\ reg.RegOps[i].RegValue < 65536

\* C1 as stated: serializing in-range operations and decoding the bytes into
\* a fresh layer gives back the same sequence, field by field (Read, RegNum,
\* RegValue), in the same order.
C1_RoundTripAllFields ==
    RoundTripCase => /\ Len(pkt) = 1
                     /\ pkt[1].RegOps = reg.RegOps

\* C1 amended: serializing in-range operations and decoding the bytes into a
\* fresh layer gives back a sequence of the same length and order with Read
\* and RegNum equal; RegValue is equal for a write and 0 for a read.
C1_RoundTripReadValueZero ==
    RoundTripCase =>
        /\ Len(pkt) = 1
        /\ Len(pkt[1].RegOps) = Len(reg.RegOps)
        /\ \A i \in 1..Len(reg.RegOps) :
              /\ pkt[1].RegOps[i].Read = reg.RegOps[i].Read
              /\ pkt[1].RegOps[i].RegNum = reg.RegOps[i].RegNum
              /\ pkt[1].RegOps[i].RegValue =
                    IF reg.RegOps[i].Read THEN 0 ELSE reg.RegOps[i].RegValue

C1_Witness ==
    /\ RoundTripCase
    /\ reg.RegOps = <<RegOp(TRUE, 4660, 255), RegOp(FALSE, 1, 255)>>
    /\ Len(data) = 8

\* where the frame of the last Serialize / SerializeTo call starts in buf
FrameBase == IF pc = "appended" THEN Len(buf0) ELSE 0

\* the four bytes at word position i (from 0) of the frame
FrameWord(i) == SubSeq(buf, FrameBase + 4 * i + 1, FrameBase + 4 * i + 4)

\* the operations whose word the last call wrote
Written ==
    {i \in 0..(Len(reg.RegOps) - 1) : FrameBase + 4 * i + 4 <= Len(buf)}

\* C7: encoding never fails and the little-endian word of every operation is
\* (read flag << 31) | ((RegNum mod 2^15) << 16) | (RegValue for a write, 0
\* for a read): a read of 0x1234 gives 0x92340000, a write of 0x00FF to
\* 0x0001 gives 0x000100FF, RegNum 0xFFFF leaves 0x7FFF in bits 30..16 and
\* bit 31 is the read flag alone.
C7_BitLayout ==
    pc \in {"serialized", "appended", "panic"} =>
        /\ err = "nil"
        /\ \A i \in Written :
              LET op == reg.RegOps[i + 1]
                  w == FrameWord(i)
                  num == op.RegNum % 32768
                  val == IF op.Read THEN 0 ELSE op.RegValue
              IN  /\ w[1] = val % 256
                  /\ w[2] = val \div 256
                  /\ w[3] = num % 256
                  /\ w[4] = (IF op.Read THEN 128 ELSE 0) + num \div 256
                  /\ (op.Read /\ op.RegNum = 4660) => w = <<0, 0, 52, 146>>
                  /\ op = RegOp(FALSE, 1, 255) => w = <<255, 0, 1, 0>>
                  /\ op.RegNum = 65535 =>
                        /\ w[3] = 255
                        /\ w[4] % 128 = 127
                        /\ w[4] \div 128 = (IF op.Read THEN 1 ELSE 0)

C7_Witness ==
    /\ pc = "serialized"
    /\ reg.RegOps = <<RegOp(TRUE, 4660, 255), RegOp(FALSE, 65535, 255)>>
    /\ FrameWord(0) = <<0, 0, 52, 146>>
    /\ FrameWord(1) = <<255, 0, 255, 127>>

\* C9: Serialize on n operations into a buffer of at least 4n bytes puts the
\* encoding of operation i at offset 4i, keeps the buffer's length and leaves
\* every byte at offset 4n or beyond as it was; SerializeTo appends exactly
\* 4n bytes, the same words, after the bytes the buffer held.
C9_SerializeFrame ==
    LET n == Len(reg.RegOps) IN
    /\ (pc = "serialized" /\ Len(buf0) >= 4 * n) =>
          /\ Len(buf) = Len(buf0)
          /\ \A i \in 0..(n - 1) :
                SubSeq(buf, 4 * i + 1, 4 * i + 4) = PutUint32(EncodeWord(reg.RegOps[i + 1]))
          /\ \A j \in (4 * n + 1)..Len(buf0) : buf[j] = buf0[j]
    /\ pc = "appended" =>
          /\ Len(buf) = Len(buf0) + 4 * n
          /\ SubSeq(buf, 1, Len(buf0)) = buf0
          /\ \A i \in 0..(n - 1) :
                SubSeq(buf, Len(buf0) + 4 * i + 1, Len(buf0) + 4 * i + 4)
                    = PutUint32(EncodeWord(reg.RegOps[i + 1]))

C9_Witness ==
    /\ pc = "serialized"
    /\ Len(reg.RegOps) = 2
    /\ Len(buf0) = 9
    /\ buf[9] = buf0[9]
    /\ SubSeq(buf, 1, 8) # SubSeq(buf0, 1, 8)

\* C2 as stated: decoding a buffer whose length is not a multiple of 4 fails
\* with ErrMalformedFrame and produces no operations.
C2_MalformedFrameRejected ==
    /\ (pc = "decodedInto" /\ Len(data) % 4 # 0) =>
          /\ err = "ErrMalformedFrame"
          /\ reg.RegOps = ops0
    /\ (pc = "decodedPkt" /\ Len(data) % 4 # 0) =>
          /\ err = "ErrMalformedFrame"
          /\ pkt = <<>>

\* C10 as stated: after every DecodeFromBytes call the layer's RegOps holds
\* exactly len(data)/4 operations, the decoding of that call's data alone.
C10_DecodeKeepsNoState ==
    pc = "decodedInto" =>
        /\ Len(reg.RegOps) = Len(data) \div 4
        /\ reg.RegOps = DecodeFrom(<<>>, data, 0)

(***************************************************************************)
(* Properties of the API server.                                           *)
(***************************************************************************)
SingleDeviceHandlers ==
    {"handleRegRead", "handleRegReadAll", "handleRegWrite", "handleMStreamAction"}

\* the calls made on device handles, in order
DeviceCalls == SelectSeq(calls, LAMBDA c : c.method \in DeviceMethods)

\* position in env.order of the first device whose command fails, 0 if none
FirstFailing ==
    IF \E k \in 1..Len(env.order) : env.order[k] \in env.failing
    THEN CHOOSE k \in 1..Len(env.order) :
            /\ env.order[k] \in env.failing
            /\ \A j \in 1..(k - 1) : env.order[j] \notin env.failing
    ELSE 0

BroadcastCase ==
    /\ req.handler = "handleMStreamActionAll"
    /\ req.action \in {"start", "stop"}

\* C3: a stream-start / stream-stop broadcast invokes the command on the
\* devices in the order of GetAllDevices, each at most once; it stops at the
\* first device that fails, reports that device's error, and invokes no
\* device after it.
C3_FailFastBroadcast ==
    BroadcastCase =>
        LET method == IF req.action = "start" THEN "MStreamStart" ELSE "MStreamStop"
            k == FirstFailing
            last == IF k = 0 THEN Len(env.order) ELSE k
        IN  /\ DeviceCalls = [i \in 1..last |-> Call(method, env.order[i])]
            /\ k = 0 => resp.status = StatusOK /\ resp.err = Nil
            /\ k # 0 => /\ resp.status = StatusBadGateway
                        /\ resp.err = ErrDevice(env.order[k])

C3_Witness ==
    /\ BroadcastCase
    /\ req.action = "start"
    /\ Len(env.order) = 3
    /\ env.failing = {env.order[2]}
    /\ DeviceCalls = <<Call("MStreamStart", env.order[1]), Call("MStreamStart", env.order[2])>>
    /\ resp.status = StatusBadGateway

\* C4 as stated: a stream command with an unrecognized action fails with
\* ErrUnknownOperation (bad request) and makes no registry lookup and no
\* device call, in the single-device and in the all-devices handler.
C4_UnknownVerbNeverReachesRegistry ==
    (/\ req.handler \in {"handleMStreamAction", "handleMStreamActionAll"}
     /\ req.action \notin {"start", "stop"}) =>
        /\ resp.status = StatusBadRequest
        /\ resp.err = ErrUnknownOperation
        /\ calls = <<>>

\* C5 as stated: when the name resolves and the device handle call returns
\* an error, a single-device verb ends as a gateway failure (502), never as
\* not found (404).
C5_DeviceErrorIsBadGateway ==
    (/\ req.handler \in SingleDeviceHandlers
     /\ req.device \in devices
     /\ DeviceCalls # <<>>
     /\ req.device \in env.failing) =>
        /\ resp.status = StatusBadGateway
        /\ resp.status # StatusNotFound

\* a single-device verb: read with an address that parses, read-all, write
\* with a body that decodes to an address and a value, stream-start,
\* stream-stop
IsVerb ==
    \/ req.handler = "handleRegRead" /\ ParseUint(req.addr).err = Nil
    \/ req.handler = "handleRegReadAll"
    \/ /\ req.handler = "handleRegWrite"
       /\ req.body.json
       /\ NewRegFromHex(req.body.Addr, req.body.Value).err = Nil
    \/ req.handler = "handleMStreamAction" /\ req.action \in {"start", "stop"}

\* C6: a single-device verb whose target the registry does not hold fails
\* with the registry's ErrUnknownDevice, surfaced as not found, and no
\* method of any device handle is invoked.
C6_UnknownDevice ==
    (IsVerb /\ req.device \notin devices) =>
        /\ resp.status = StatusNotFound
        /\ resp.err = ErrUnknownDevice(req.device)
        /\ DeviceCalls = <<>>

C6_Witness ==
    /\ devices = {"adc0"}
    /\ req.handler = "handleRegRead"
    /\ req.device = "adc1"
    /\ IsVerb
    /\ resp.status = StatusNotFound
    /\ calls = <<Call("GetDeviceByName", "adc1")>>

\* C8: a successful read-all response holds one address/value pair per
\* register RegReadAll returned, in the same order.
C8_ReadAllOrder ==
    (req.handler = "handleRegReadAll" /\ resp.status = StatusOK) =>
        /\ Len(resp.body) = Len(env.regs)
        /\ \A i \in 1..Len(env.regs) :
              /\ ParseUint(resp.body[i].Addr).value = env.regs[i].Addr
              /\ ParseUint(resp.body[i].Value).value = env.regs[i].Value

C8_Witness ==
    /\ req.handler = "handleRegReadAll"
    /\ resp.status = StatusOK
    /\ env.regs = <<[Addr |-> 0, Value |-> 5], [Addr |-> 1, Value |-> 9]>>
    /\ resp.body = <<[Addr |-> Hex4(0), Value |-> Hex4(5)], [Addr |-> Hex4(1), Value |-> Hex4(9)]>>

====
